---- MODULE Spec2Model ----
(***************************************************************************)
(* A model of veilid_duplex: the P2PApp of src/src/veilid.rs (host and     *)
(* client construction, app_call_host, network_loop with its reply tasks   *)
(* and its RouteChange arm), the DHT pin helpers of src/src/veilid.rs and  *)
(* src/src/utils.rs, and the part of the Veilid overlay they consume       *)
(* (private routes, DHT records, app_call / app_call_reply, the update     *)
(* stream).  Node "B" is built by new_host, node "A" by new_client.        *)
(* Two parts stand by themselves: the startup of a node                    *)
(* (create_api_and_connect and its wait loops) and update_service_key of   *)
(* src/src/dht.rs.                                                         *)
(***************************************************************************)
EXTENDS Integers, Sequences, FiniteSets, TLC

(***************************************************************************)
(* Bounds of the model.                                                    *)
(***************************************************************************)
MaxCalls == 2      \* app_calls the overlay carries in one run
MaxRoutes == 3     \* private routes the overlay creates in one run
MaxEnv == 1        \* events from outside the two P2PApps in one run: a
                   \* dead route, an update the loop ignores, a foreign
                   \* peer's call, an rpc timeout, a rewrite of the pin
MaxPeers == 1      \* peers the overlay reports in VeilidState.network

Node == {"A", "B"}
Host == "B"
Client == "A"
Peer(n) == IF n = "A" THEN "B" ELSE "A"

\* Option::None of a byte string, and the error of an operation that yields
\* one: a sequence that is no byte string.
None == <<-1>>
\* The same for a key.
NoKey == 0

(***************************************************************************)
(* base64, general_purpose::STANDARD_NO_PAD, on sequences of bytes.        *)
(***************************************************************************)
B64Char(s) ==
    IF s < 26 THEN 65 + s
    ELSE IF s < 52 THEN 97 + (s - 26)
    ELSE IF s < 62 THEN 48 + (s - 52)
    ELSE IF s = 62 THEN 43 ELSE 47

B64Val(c) ==
    IF c >= 65 /\ c <= 90 THEN c - 65
    ELSE IF c >= 97 /\ c <= 122 THEN c - 97 + 26
    ELSE IF c >= 48 /\ c <= 57 THEN c - 48 + 52
    ELSE IF c = 43 THEN 62
    ELSE IF c = 47 THEN 63 ELSE -1

RECURSIVE encode(_)
encode(b) ==
    IF Len(b) = 0 THEN <<>>
    ELSE IF Len(b) = 1 THEN
        <<B64Char(b[1] \div 4), B64Char((b[1] % 4) * 16)>>
    ELSE IF Len(b) = 2 THEN
        <<B64Char(b[1] \div 4),
          B64Char((b[1] % 4) * 16 + (b[2] \div 16)),
          B64Char((b[2] % 16) * 4)>>
    ELSE
        <<B64Char(b[1] \div 4),
          B64Char((b[1] % 4) * 16 + (b[2] \div 16)),
          B64Char((b[2] % 16) * 4 + (b[3] \div 64)),
          B64Char(b[3] % 64)>> \o encode(SubSeq(b, 4, Len(b)))

\* The decoded bytes, or None when the text is not unpadded base64 (a symbol
\* outside the alphabet, a length of 1 mod 4, non-zero trailing bits).
RECURSIVE decode(_)
decode(s) ==
    IF Len(s) = 0 THEN <<>>
    ELSE IF \E i \in 1..Len(s) : B64Val(s[i]) = -1 THEN None
    ELSE IF Len(s) = 1 THEN None
    ELSE IF Len(s) = 2 THEN
        IF B64Val(s[2]) % 16 # 0 THEN None
        ELSE <<B64Val(s[1]) * 4 + (B64Val(s[2]) \div 16)>>
    ELSE IF Len(s) = 3 THEN
        IF B64Val(s[3]) % 4 # 0 THEN None
        ELSE <<B64Val(s[1]) * 4 + (B64Val(s[2]) \div 16),
               (B64Val(s[2]) % 16) * 16 + (B64Val(s[3]) \div 4)>>
    ELSE
        LET rest == decode(SubSeq(s, 5, Len(s)))
        IN  IF rest = None THEN None
            ELSE <<B64Val(s[1]) * 4 + (B64Val(s[2]) \div 16),
                   (B64Val(s[2]) % 16) * 16 + (B64Val(s[3]) \div 4),
                   (B64Val(s[3]) % 4) * 64 + B64Val(s[4])>> \o rest

\* String::from_utf8 on the byte strings of this model: text of ASCII bytes
\* is valid, a byte of 0xF8 and above is valid nowhere in UTF-8.
from_utf8(b) == IF \A i \in 1..Len(b) : b[i] < 128 THEN b ELSE None

(***************************************************************************)
(* Private routes.  Route r of the overlay has the blob RouteBlob(r);      *)
(* import_remote_private_route parses a blob back to the route's key.      *)
(***************************************************************************)
RouteBlob(r) == <<r, 255 - r>>

import_remote_private_route(blob) ==
    IF blob # None /\ Len(blob) = 2 /\ blob[1] + blob[2] = 255
       /\ blob[1] \in 1..MaxRoutes + 1
    THEN blob[1] ELSE NoKey

(***************************************************************************)
(* The envelope AppMessage<T> and its JSON encoding.  T is modelled by the *)
(* type  struct { count: u64, pad: String } ; pad is the length of the     *)
(* string.  The wire bytes are the sequence of the object's members, and   *)
(* JsonLen is the length in bytes of the JSON text serde_json writes.      *)
(***************************************************************************)
AppMessage(data, their, our) ==
    [data |-> data, their_route |-> their, our_route |-> our]

\* A serializer that skips the payload's string.
to_vec_skip_pad(m) ==
    << <<"data", [m.data EXCEPT !.pad = 0]>>,
       <<"their_route", m.their_route>>,
       <<"our_route", m.our_route>> >>

\* serde_json::to_vec(self)
to_vec(m) ==
    << <<"data", m.data>>,
       <<"their_route", m.their_route>>,
       <<"our_route", m.our_route>> >>

\* serde_json::from_slice::<AppMessage<T>>: NoMessage (an error) for bytes
\* that are not an object with the three members.
NoMessage == AppMessage([count |-> 0, pad |-> 0], None, None)

from_slice(b) ==
    IF Len(b) = 3 /\ b[1][1] = "data" /\ b[2][1] = "their_route"
       /\ b[3][1] = "our_route"
    THEN [data |-> b[1][2], their_route |-> b[2][2], our_route |-> b[3][2]]
    ELSE NoMessage

Digits(n) ==
    IF n < 10 THEN 1 ELSE IF n < 100 THEN 2 ELSE IF n < 1000 THEN 3
    ELSE IF n < 10000 THEN 4 ELSE 5

RECURSIVE SumDigits(_)
SumDigits(s) ==
    IF Len(s) = 0 THEN 0 ELSE Digits(s[1]) + SumDigits(Tail(s))

\* [a,b,...]
ArrayLen(s) == 2 + SumDigits(s) + (IF Len(s) > 1 THEN Len(s) - 1 ELSE 0)

\* {"count":N,"pad":"..."}
DataLen(d) == 9 + Digits(d.count) + 8 + d.pad + 2

\* {"data":D,"their_route":[..],"our_route":[..]}
JsonLen(m) ==
    8 + DataLen(m.data) + 15 + ArrayLen(m.their_route)
      + 13 + ArrayLen(m.our_route) + 1

MAX_BLOB == 32 * 1024

\* A size check that rejects 32 KiB itself.
TooLargeGeq(m) == JsonLen(m) >= MAX_BLOB

\* A size check against 64 KiB.
TooLarge64k(m) == JsonLen(m) > 64 * 1024

\* AppMessage::send, the size check.
TooLarge(m) == JsonLen(m) > MAX_BLOB

\* The payloads app_call_host is given: a small one, one whose envelope is
\* exactly 32 KiB long (and one byte longer once count has two digits), and
\* one of 35 KiB.
SmallData == [count |-> 0, pad |-> 0]
EdgePad ==
    MAX_BLOB - JsonLen(AppMessage([count |-> 9, pad |-> 0],
                                  RouteBlob(1), RouteBlob(2)))
EdgeData == [count |-> 9, pad |-> EdgePad]
BigData == [count |-> 0, pad |-> 35 * 1024]
DataSet == {SmallData, EdgeData, BigData}

\* The bytes of a foreign peer's call that do not decode as an envelope.
BadBytes == << <<"data", SmallData>> >>

\* A handler that returns its input.
on_remote_call_same(d) == d

\* on_remote_call, the user's handler F: T -> T (the ping-pong handler).
on_remote_call(d) == [d EXCEPT !.count = d.count + 1]

(***************************************************************************)
(* The state.                                                              *)
(***************************************************************************)
VARIABLES
    routes,       \* overlay: the private routes created, [owner, alive]
    imported,     \* overlay: the remote routes each node has imported
    dht,          \* overlay: the DHT records, [sub, seq, open]
    calls,        \* overlay: the app_calls, [from, task, to, message, st]
    chan,         \* the unbounded channel of each node's update callback
    phase,        \* where each node's application is
    our_route,    \* P2PApp.our_route
    their_route,  \* P2PApp.their_route (None: Option::None)
    service_key,  \* P2PApp.service_key
    own_dht_key,  \* the key create_service_route_pin logs as "DHT Key"
    dpc,          \* network_loop: "recv", or the arm that waits for the mutex
    cur,          \* network_loop: the update being handled
    dexit,        \* the error network_loop returned with
    mutex,        \* Arc<Mutex<P2PApp>>: 0 free, else the task holding it
    tasks,        \* the reply tasks network_loop spawned
    handled,      \* the calls of on_remote_call, [id, data, mutex, ...]
    csend,        \* the last app_call_host of each node, [msg, res, call]
    last_update,  \* the last update_service_route_pin, [variant, key, route, res]
    nenv,         \* events from outside the two P2PApps so far
    cb_logged,    \* the update callback took its logging branch
    rc_log,       \* the RouteChange updates network_loop handled
    ignored,      \* the variants of the updates network_loop ignored
    net,          \* startup: the VeilidState get_state returns
    spc,          \* startup: where create_api_and_connect is
    slog,         \* startup: the steps completed, with what each examined
    serr,         \* startup: the error create_api_and_connect returned
    ukin,         \* update_service_key: its arguments and the DHT's answers
    ukout         \* update_service_key: its result and the DHT calls made

overlayVars == <<routes, imported, dht, calls, chan>>
appVars == <<phase, our_route, their_route, service_key, own_dht_key>>
loopVars == <<dpc, cur, dexit, mutex, tasks, handled>>
sendVars == <<csend>>
envVars == <<last_update, nenv, cb_logged>>
logVars == <<rc_log, ignored>>
startVars == <<net, spc, slog, serr>>
keyVars == <<ukin, ukout>>
auxVars == <<startVars, keyVars>>
vars == <<overlayVars, appVars, loopVars, sendVars, envVars, logVars,
          auxVars>>

\* CryptoKeys are untyped 32-byte values: route keys are 1, 2, ..., DHT
\* record keys DhtBase + 1, DhtBase + 2, ...; DhtBase itself is the key of
\* no record.
DhtBase == 100
DhtKey(k) == DhtBase + k
NoRecordKey == DhtKey(0)

\* The two P2PApps and the overlay between them before anything ran.
AppInit ==
    /\ routes = <<>>
    /\ imported = [n \in Node |-> {}]
    /\ dht = <<>>
    /\ calls = <<>>
    /\ chan = [n \in Node |-> <<>>]
    /\ phase = [n \in Node |-> "start"]
    /\ our_route = [n \in Node |-> None]
    /\ their_route = [n \in Node |-> None]
    /\ service_key = [n \in Node |-> NoKey]
    /\ own_dht_key = [n \in Node |-> NoKey]
    /\ dpc = [n \in Node |-> "recv"]
    /\ cur = [n \in Node |->
                [id |-> 0,
                 app_message |-> AppMessage([count |-> 0, pad |-> 0],
                                            None, None),
                 dead_remote_routes |-> <<>>]]
    /\ dexit = [n \in Node |-> "none"]
    /\ mutex = [n \in Node |-> 0]
    /\ tasks = [n \in Node |-> <<>>]
    /\ handled = [n \in Node |-> <<>>]
    /\ csend = [n \in Node |->
                  [msg |-> AppMessage([count |-> 0, pad |-> 0], None, None),
                   res |-> "none", call |-> 0]]
    /\ last_update = [variant |-> "none", key |-> NoKey, route |-> None,
                      res |-> "none"]
    /\ nenv = 0
    /\ cb_logged = [n \in Node |-> FALSE]
    /\ rc_log = [n \in Node |-> <<>>]
    /\ ignored = [n \in Node |-> {}]

\* The VeilidState of a node that has not attached.
NotAttached ==
    [started |-> FALSE, peers |-> 0, attachment |-> "Detached",
     public_internet_ready |-> FALSE]

\* create_api_and_connect has not been called.
StartInit ==
    /\ net = NotAttached
    /\ spc = "api_startup"
    /\ slog = <<>>
    /\ serr = "none"

\* An Option: <<>> is None, <<v>> is Some(v).
Option(S) == {<<>>} \cup {<<v>> : v \in S}

\* ServiceKeys without a DHT record, and a DHT that answers every call.
NoServiceKeys ==
    [dht_key |-> <<>>, dht_owner_key |-> <<>>, dht_owner_secret_key |-> <<>>,
     encoded_keys |-> <<>>, open_ok |-> TRUE, set_ok |-> TRUE,
     close_ok |-> TRUE]

\* update_service_key has not returned.
NotReturned == [res |-> "none", ops |-> <<>>]

KeyInit ==
    /\ ukin = NoServiceKeys
    /\ ukout = NotReturned

Init == AppInit /\ StartInit /\ KeyInit

(***************************************************************************)
(* The overlay's operations.                                               *)
(***************************************************************************)
\* new_custom_private_route: the key of the route it would create, or NoKey
\* when the overlay fails to allocate one.
NewRouteKey(made) ==
    IF Len(routes) + made < MaxRoutes THEN Len(routes) + made + 1 ELSE NoKey

HasRecord(key) == key - DhtBase \in 1..Len(dht)

\* get_dht_value(key, subkey, force_refresh): the value, or None.
get_dht_value(key, subkey) == dht[key - DhtBase].sub[subkey + 1]

\* Writers of a record of schema SMPL(o_cnt 1, members [{m_key, m_cnt 1}]):
\* the owner writes subkey 0, the member subkey 1.
MayWrite(writer, subkey) ==
    \/ writer = "owner" /\ subkey = 0
    \/ writer = "member" /\ subkey = 1

\* set_dht_value: the subkey gets the value and its next sequence number.
DhtSet(d, key, subkey, value) ==
    [d EXCEPT ![key - DhtBase].sub[subkey + 1] = value,
              ![key - DhtBase].seq[subkey + 1] = @ + 1]

DhtOpen(d, key, n) ==
    [d EXCEPT ![key - DhtBase].open = @ \cup {n}]

DhtClose(d, key, n) ==
    [d EXCEPT ![key - DhtBase].open = @ \ {n}]

\* The receiver of a node's channel lives in its P2PApp: it is dropped when
\* construction fails, and when network_loop has returned and no reply task
\* is left that holds the Arc of the P2PApp.
ReceiverAlive(n) ==
    \/ phase[n] \notin {"failed", "exited"}
    \/ \E t \in 1..Len(tasks[n]) : tasks[n][t].pc # "done"

Event(type, id, message, dead, dead_remote) ==
    [type |-> type, id |-> id, message |-> message,
     dead_routes |-> dead, dead_remote_routes |-> dead_remote]

\* The update callback of P2PApp::initialize run for the nodes of `to`, each
\* with the event ev[n]: it sends on the channel, and logs when that fails.
UpdateCallback(to, ev) ==
    /\ chan' = [n \in Node |->
                  IF n \in to /\ ReceiverAlive(n)
                  THEN Append(chan[n], ev[n]) ELSE chan[n]]
    /\ cb_logged' = [n \in Node |->
                       cb_logged[n] \/ (n \in to /\ ~ReceiverAlive(n))]

(***************************************************************************)
(* P2PApp::get_service_route(api, routing_context, service_key), run when  *)
(* `made` routes were created earlier in the same step and the DHT is      *)
(* reachable or not (up).  The outcome:                                    *)
(*   res    "ok", or the operation that failed                             *)
(*   their  the peer's route blob read from the DHT                        *)
(*   our    the blob of the private route created for this node            *)
(*   made   the routes created, imp the routes imported,                   *)
(*   open   the records left open.                                         *)
(***************************************************************************)
Outcome(res, their, our, made, imp, open) ==
    [res |-> res, their |-> their, our |-> our, made |-> made,
     imp |-> imp, open |-> open]

\* A resolver that creates the local route before it looks the peer up.
get_service_route_route_first(key, made, up) ==
    IF ~up \/ ~HasRecord(key) \/ NewRouteKey(made) = NoKey
    THEN Outcome("open_dht_record: no record", None, None,
                 IF NewRouteKey(made) = NoKey THEN 0 ELSE 1, {}, {})
    ELSE LET dht_val == get_dht_value(key, 0) IN
    IF dht_val = None \/ from_utf8(dht_val) = None
    THEN Outcome("DHT value not found", None, None, 1, {}, {key})
    ELSE LET their_route_blob == decode(from_utf8(dht_val)) IN
    IF their_route_blob = None
       \/ import_remote_private_route(their_route_blob) = NoKey
    THEN Outcome("import_remote_private_route", None, None, 1, {}, {})
    ELSE Outcome("ok", their_route_blob, RouteBlob(NewRouteKey(made)), 1,
                 {import_remote_private_route(their_route_blob)}, {})

get_service_route(key, made, up) ==
    IF ~up
    THEN Outcome("open_dht_record: unreachable", None, None, 0, {}, {})
    ELSE IF ~HasRecord(key)
    THEN Outcome("open_dht_record: no record", None, None, 0, {}, {})
    ELSE LET dht_val == get_dht_value(key, 0) IN
    IF dht_val = None
    THEN Outcome("DHT value not found", None, None, 0, {}, {key})
    ELSE IF from_utf8(dht_val) = None
    THEN Outcome("panic", None, None, 0, {}, {key})
    ELSE LET their_route_blob == decode(from_utf8(dht_val)) IN
    IF their_route_blob = None
    THEN Outcome("panic", None, None, 0, {}, {})
    ELSE LET route == import_remote_private_route(their_route_blob) IN
    IF route = NoKey
    THEN Outcome("import_remote_private_route", None, None, 0, {}, {})
    ELSE IF NewRouteKey(made) = NoKey
    THEN Outcome("new_custom_private_route", None, None, 0, {route}, {})
    ELSE Outcome("ok", their_route_blob, RouteBlob(NewRouteKey(made)),
                 1, {route}, {})

\* The overlay's state after node n ran an operation with outcome o.
ApplyOutcome(n, o) ==
    /\ routes' = routes \o [i \in 1..o.made |-> [owner |-> n, alive |-> TRUE]]
    /\ imported' = [imported EXCEPT ![n] = @ \cup o.imp]
    /\ dht' = [k \in 1..Len(dht) |->
                 IF DhtKey(k) \in o.open
                 THEN [dht[k] EXCEPT !.open = @ \cup {n}] ELSE dht[k]]

(***************************************************************************)
(* P2PApp::new_host, one action per overlay operation it awaits.           *)
(***************************************************************************)
\* new_custom_private_route
HostNewRoute(n) ==
    /\ n = Host /\ phase[n] = "start"
    /\ IF NewRouteKey(0) = NoKey
       THEN /\ phase' = [phase EXCEPT ![n] = "failed"]
            /\ UNCHANGED <<routes, our_route>>
       ELSE /\ routes' = Append(routes, [owner |-> n, alive |-> TRUE])
            /\ our_route' = [our_route EXCEPT ![n] = RouteBlob(NewRouteKey(0))]
            /\ phase' = [phase EXCEPT ![n] = "routed"]
    /\ UNCHANGED <<imported, dht, calls, chan, their_route,
                   service_key, own_dht_key, loopVars, sendVars, envVars,
                   logVars>>
    /\ UNCHANGED auxVars

\* create_service_route_pin: create_dht_record
HostCreateRecord(n, up) ==
    /\ n = Host /\ phase[n] = "routed"
    /\ IF ~up
       THEN /\ phase' = [phase EXCEPT ![n] = "failed"]
            /\ UNCHANGED <<dht, own_dht_key>>
       ELSE /\ dht' = Append(dht, [sub |-> <<None, None>>, seq |-> <<0, 0>>,
                                      open |-> {n}])
            /\ own_dht_key' = [own_dht_key EXCEPT ![n] = DhtKey(Len(dht) + 1)]
            /\ phase' = [phase EXCEPT ![n] = "created"]
    /\ UNCHANGED <<routes, imported, calls, chan, our_route,
                   their_route, service_key, loopVars, sendVars, envVars,
                   logVars>>
    /\ UNCHANGED auxVars

\* The subkey create_service_route_pin writes.
CreateSubkey == 0

\* A publisher that stores the blob as it is.
service_key_blob_raw(blob) == blob

\* The value new_host publishes for a route blob.
service_key_blob(blob) == encode(blob)

\* create_service_route_pin: set_dht_value(key, 0, route), as the owner
HostSetValue(n, up) ==
    /\ n = Host /\ phase[n] = "created"
    /\ IF ~up
       THEN /\ phase' = [phase EXCEPT ![n] = "failed"]
            /\ UNCHANGED dht
       ELSE /\ dht' = DhtSet(dht, own_dht_key[n], CreateSubkey,
                             service_key_blob(our_route[n]))
            /\ phase' = [phase EXCEPT ![n] = "set"]
    /\ UNCHANGED <<routes, imported, calls, chan, our_route,
                   their_route, service_key, own_dht_key, loopVars,
                   sendVars, envVars,
                   logVars>>
    /\ UNCHANGED auxVars

\* The key new_host keeps as service_key: the key of its own route.
HostServiceKey(n) == import_remote_private_route(our_route[n])

\* create_service_route_pin: close_dht_record; then the rest of new_host
HostClose(n, up) ==
    /\ n = Host /\ phase[n] = "set"
    /\ IF ~up
       THEN /\ phase' = [phase EXCEPT ![n] = "failed"]
            /\ UNCHANGED <<dht, imported, service_key>>
       ELSE /\ dht' = DhtClose(dht, own_dht_key[n], n)
            /\ imported' = [imported EXCEPT ![n] = @ \cup {HostServiceKey(n)}]
            /\ service_key' = [service_key EXCEPT ![n] = HostServiceKey(n)]
            /\ phase' = [phase EXCEPT ![n] = "ready"]
    /\ UNCHANGED <<routes, calls, chan, our_route, their_route,
                   own_dht_key, loopVars, sendVars, envVars,
                   logVars>>
    /\ UNCHANGED auxVars

(***************************************************************************)
(* P2PApp::new_client(service_key): the key is the one the user was given, *)
(* the host's record key or a key nothing was published under.             *)
(***************************************************************************)
NewClient(n, key, up) ==
    /\ n = Client /\ phase[n] = "start"
    /\ LET o == get_service_route(key, 0, up) IN
       /\ ApplyOutcome(n, o)
       /\ IF o.res = "ok"
          THEN /\ phase' = [phase EXCEPT ![n] = "ready"]
               /\ our_route' = [our_route EXCEPT ![n] = o.our]
               /\ their_route' = [their_route EXCEPT ![n] = o.their]
               /\ service_key' = [service_key EXCEPT ![n] = key]
               /\ UNCHANGED dexit
          ELSE /\ phase' = [phase EXCEPT ![n] = "failed"]
               /\ dexit' = [dexit EXCEPT ![n] = o.res]
               /\ UNCHANGED <<our_route, their_route, service_key>>
    /\ UNCHANGED <<calls, chan, own_dht_key, dpc, cur, mutex, tasks,
                   handled, sendVars, envVars,
                   logVars>>
    /\ UNCHANGED auxVars

(***************************************************************************)
(* AppMessage::send(api, routing_context): the outcome of its synchronous  *)
(* part.  res is "app_call" when the call is handed to the overlay (route  *)
(* is its target), else the error send returns with.  The overlay refuses  *)
(* a call when it carries MaxCalls already.                                *)
(***************************************************************************)
send(m) ==
    IF TooLarge(m)
    THEN [res |-> "Message size exceeds 32kb", route |-> NoKey, imp |-> {}]
    ELSE LET route == import_remote_private_route(m.their_route) IN
    IF route = NoKey
    THEN [res |-> "import_remote_private_route", route |-> NoKey, imp |-> {}]
    ELSE IF Len(calls) >= MaxCalls
    THEN [res |-> "app_call failed", route |-> route, imp |-> {route}]
    ELSE [res |-> "app_call", route |-> route, imp |-> {route}]

Call(from, task, to, message, st) ==
    [from |-> from, task |-> task, to |-> to, message |-> message,
     st |-> st]

\* routing_context.app_call(target, message), up to its await: the call
\* reaches the node that owns the target route, where the overlay runs the
\* update callback with VeilidUpdate::AppCall.  A call to a dead route fails.
app_call(from, task, to, message) ==
    IF to \in 1..Len(routes) /\ routes[to].alive
    THEN /\ calls' = Append(calls, Call(from, task, to, message, "pending"))
         /\ UpdateCallback({routes[to].owner},
               [n \in Node |->
                  Event("AppCall", Len(calls) + 1, message, <<>>, <<>>)])
    ELSE /\ calls' = Append(calls, Call(from, task, to, message, "failed"))
         /\ UNCHANGED <<chan, cb_logged>>

(***************************************************************************)
(* P2PApp::app_call_host(data), up to the await of app_call.               *)
(***************************************************************************)
AppCallHost(n, d) ==
    /\ phase[n] = "ready"
    /\ IF their_route[n] = None
       THEN \* their_route.clone().unwrap() panics
            /\ phase' = [phase EXCEPT ![n] = "failed"]
            /\ csend' = [csend EXCEPT ![n] =
                           [msg |-> NoMessage, res |-> "panic", call |-> 0]]
            /\ UNCHANGED <<imported, calls, chan, cb_logged>>
       ELSE LET m == AppMessage(d, their_route[n], our_route[n])
                s == send(m)
            IN  /\ imported' = [imported EXCEPT ![n] = @ \cup s.imp]
                /\ IF s.res = "app_call"
                   THEN /\ app_call(n, 0, s.route, to_vec(m))
                        /\ phase' = [phase EXCEPT ![n] = "sending"]
                        /\ csend' = [csend EXCEPT ![n] =
                              [msg |-> m, res |-> "pending",
                               call |-> Len(calls) + 1]]
                   ELSE /\ csend' = [csend EXCEPT ![n] =
                              [msg |-> m, res |-> s.res, call |-> 0]]
                        /\ UNCHANGED <<calls, chan, cb_logged, phase>>
    /\ UNCHANGED <<routes, dht, our_route, their_route,
                   service_key, own_dht_key, loopVars, last_update, nenv,
                   logVars>>
    /\ UNCHANGED auxVars

\* app_call returns: the reply, or the overlay's error.
AppCallReturn(n) ==
    /\ phase[n] = "sending"
    /\ calls[csend[n].call].st \in {"replied", "failed"}
    /\ csend' = [csend EXCEPT ![n].res =
                   IF calls[csend[n].call].st = "replied"
                   THEN "ok" ELSE "app_call failed"]
    /\ phase' = [phase EXCEPT ![n] = "ready"]
    /\ UNCHANGED <<overlayVars, our_route, their_route, service_key,
                   own_dht_key, loopVars, envVars, logVars>>
    /\ UNCHANGED auxVars

\* The application calls network_loop(self, on_remote_call).
StartLoop(n) ==
    /\ phase[n] = "ready"
    /\ phase' = [phase EXCEPT ![n] = "loop"]
    /\ UNCHANGED <<overlayVars, our_route, their_route, service_key,
                   own_dht_key, loopVars, sendVars, envVars,
                   logVars>>
    /\ UNCHANGED auxVars

(***************************************************************************)
(* P2PApp::network_loop.                                                   *)
(***************************************************************************)
\* No update is being handled.
NoUpdate == [id |-> 0, app_message |-> NoMessage, dead_remote_routes |-> <<>>]

\* network_loop returns Err(cause): the P2PApp and its receiver are dropped.
Exit(n, cause) ==
    /\ phase' = [phase EXCEPT ![n] = "exited"]
    /\ dexit' = [dexit EXCEPT ![n] = cause]
    /\ dpc' = [dpc EXCEPT ![n] = "recv"]
    /\ cur' = [cur EXCEPT ![n] = NoUpdate]

\* An arm that ends network_loop on an update it has no use for.
Ignore_exit(n, res) ==
    /\ Exit(n, "unhandled update")
    /\ ignored' = [ignored EXCEPT ![n] = @ \cup {res.type}]

\* The arm `_ => ()`: nothing is done with the update.
Ignore(n, res) ==
    /\ UNCHANGED <<phase, dexit, dpc, cur>>
    /\ ignored' = [ignored EXCEPT ![n] = @ \cup {res.type}]

\* reciever.recv()? and the match on the update, up to the first await.
DispRecv(n) ==
    /\ phase[n] = "loop" /\ dpc[n] = "recv" /\ chan[n] # <<>>
    /\ chan' = [chan EXCEPT ![n] = Tail(@)]
    /\ LET res == Head(chan[n]) IN
       CASE res.type = "AppCall" ->
              IF from_slice(res.message) = NoMessage
              THEN Exit(n, "from_slice") /\ UNCHANGED ignored
              ELSE /\ dpc' = [dpc EXCEPT ![n] = "AppCall"]
                   /\ cur' = [cur EXCEPT ![n] =
                                [NoUpdate EXCEPT
                                   !.id = res.id,
                                   !.app_message = from_slice(res.message)]]
                   /\ UNCHANGED <<phase, dexit, ignored>>
         [] res.type = "RouteChange" ->
              /\ dpc' = [dpc EXCEPT ![n] = "RouteChange"]
              /\ cur' = [cur EXCEPT ![n] =
                           [NoUpdate EXCEPT
                              !.dead_remote_routes = res.dead_remote_routes]]
              /\ UNCHANGED <<phase, dexit, ignored>>
         [] OTHER -> Ignore(n, res)
    /\ UNCHANGED <<routes, imported, dht, calls, our_route,
                   their_route, service_key, own_dht_key, mutex, tasks,
                   handled, sendVars, envVars, rc_log>>
    /\ UNCHANGED auxVars

Task(id, m) ==
    [id |-> id, msg |-> m, pc |-> "lock", env |-> NoMessage, call |-> 0]

\* The dispatcher as the holder of the mutex; reply task t holds it as t.
Disp == -1

\* A block that caches the route the envelope is addressed to.
LockBlock_unswapped(m) == [their_route |-> m.their_route, mutex |-> 0]

\* A block whose guard outlives it.
LockBlock_guard_kept(m) == [their_route |-> m.our_route, mutex |-> Disp]

\* The block of the AppCall arm around app.lock(): their_route is set
\* under the guard, and the guard is dropped where the block ends.  What
\* the block leaves: the cached peer route and the holder of the mutex.
LockBlock(m) == [their_route |-> m.our_route, mutex |-> 0]

\* The AppCall arm from app.lock().await: their_route is set under the
\* mutex, the handler runs, the reply task is spawned.  The handler is the
\* user's: it returns, or it panics, which unwinds network_loop.  Each
\* invocation is recorded with the holder of the mutex at the time, the
\* route the envelope advertised and the peer route cached then.
DispAppCall(n, panics) ==
    /\ phase[n] = "loop" /\ dpc[n] = "AppCall" /\ mutex[n] = 0
    /\ LET m == cur[n].app_message
           b == LockBlock(m)
       IN  /\ their_route' = [their_route EXCEPT ![n] = b.their_route]
           /\ mutex' = [mutex EXCEPT ![n] = b.mutex]
           /\ handled' = [handled EXCEPT ![n] =
                            Append(@, [id |-> cur[n].id, data |-> m.data,
                                       mutex |-> b.mutex,
                                       advertised |-> m.our_route,
                                       their |-> their_route'[n]])]
           /\ IF panics
              THEN /\ Exit(n, "on_remote_call")
                   /\ UNCHANGED tasks
              ELSE /\ tasks' = [tasks EXCEPT ![n] =
                          Append(@, Task(cur[n].id,
                                 [m EXCEPT !.data = on_remote_call(m.data)]))]
                   /\ dpc' = [dpc EXCEPT ![n] = "recv"]
                   /\ cur' = [cur EXCEPT ![n] = NoUpdate]
                   /\ UNCHANGED <<phase, dexit>>
    /\ UNCHANGED <<overlayVars, our_route, service_key, own_dht_key,
                   sendVars, envVars, logVars>>
    /\ UNCHANGED auxVars

\* A RouteChange arm that resolves the peer again on every RouteChange.
DeadRemoteLoop_always(list, their_key, key, up, acc) ==
    LET o == get_service_route(key, acc.made, up) IN
    Outcome(o.res,
            IF o.res = "ok" THEN o.their ELSE acc.their,
            IF o.res = "ok" THEN o.our ELSE acc.our,
            acc.made + o.made, acc.imp \cup o.imp, acc.open \cup o.open)

\* The loop over change.dead_remote_routes: acc is the outcome so far,
\* their_key the key of the cached peer route when the loop began.
RECURSIVE DeadRemoteLoop(_, _, _, _, _)
DeadRemoteLoop(list, their_key, key, up, acc) ==
    IF list = <<>> \/ acc.res # "ok" THEN acc
    ELSE IF Head(list) # their_key
    THEN DeadRemoteLoop(Tail(list), their_key, key, up, acc)
    ELSE LET o == get_service_route(key, acc.made, up) IN
         DeadRemoteLoop(Tail(list), their_key, key, up,
            Outcome(o.res,
                    IF o.res = "ok" THEN o.their ELSE acc.their,
                    IF o.res = "ok" THEN o.our ELSE acc.our,
                    acc.made + o.made, acc.imp \cup o.imp,
                    acc.open \cup o.open))

\* What the RouteChange arm did with the update it handled: the update's
\* dead_remote_routes, the routes of the P2PApp before and after, the
\* private routes created, the routes imported, whether the DHT records
\* are as they were, and how the arm ended.
RouteChangeEntry(n) ==
    [dead_remote_routes |-> cur[n].dead_remote_routes,
     their0 |-> their_route[n], our0 |-> our_route[n],
     their1 |-> their_route'[n], our1 |-> our_route'[n],
     made |-> Len(routes') - Len(routes),
     imp |-> imported'[n] \ imported[n],
     dht_kept |-> dht' = dht,
     res |-> IF phase'[n] = "loop" THEN "ok" ELSE dexit'[n]]

\* The RouteChange arm, run under the mutex from app.lock().await on.
DispRouteChange(n, up) ==
    /\ phase[n] = "loop" /\ dpc[n] = "RouteChange" /\ mutex[n] = 0
    /\ IF their_route[n] = None
       THEN /\ dpc' = [dpc EXCEPT ![n] = "recv"]
            /\ cur' = [cur EXCEPT ![n] = NoUpdate]
            /\ UNCHANGED <<routes, imported, dht, phase, dexit, our_route,
                           their_route>>
       ELSE LET their_key == import_remote_private_route(their_route[n]) IN
            IF their_key = NoKey
            THEN /\ Exit(n, "import_remote_private_route")
                 /\ UNCHANGED <<routes, imported, dht, our_route, their_route>>
            ELSE LET o == DeadRemoteLoop(cur[n].dead_remote_routes, their_key,
                             service_key[n], up,
                             Outcome("ok", their_route[n], our_route[n],
                                     0, {their_key}, {}))
                 IN  /\ ApplyOutcome(n, o)
                     /\ our_route' = [our_route EXCEPT ![n] = o.our]
                     /\ their_route' = [their_route EXCEPT ![n] = o.their]
                     /\ IF o.res = "ok"
                        THEN /\ dpc' = [dpc EXCEPT ![n] = "recv"]
                             /\ cur' = [cur EXCEPT ![n] = NoUpdate]
                             /\ UNCHANGED <<phase, dexit>>
                        ELSE Exit(n, o.res)
    /\ rc_log' = [rc_log EXCEPT ![n] = Append(@, RouteChangeEntry(n))]
    /\ UNCHANGED <<calls, chan, service_key, own_dht_key, mutex,
                   tasks, handled, sendVars, envVars, ignored>>
    /\ UNCHANGED auxVars

(***************************************************************************)
(* The reply task network_loop spawns for an AppCall: the loop around      *)
(* app_call_host_reply.  Task t of node n is tasks[n][t].                  *)
(***************************************************************************)
TaskIds(n) == 1..Len(tasks[n])

\* A retry that sends the envelope of the task's first attempt again.
ReplyEnvelope_first(n, t) ==
    IF tasks[n][t].env # NoMessage THEN tasks[n][t].env
    ELSE [tasks[n][t].msg EXCEPT !.our_route = our_route[n],
                                 !.their_route = their_route[n]]

\* The envelope of one iteration of the reply loop: the handler's message
\* with the routes the P2PApp holds now.
ReplyEnvelope(n, t) ==
    [tasks[n][t].msg EXCEPT !.our_route = our_route[n],
                            !.their_route = their_route[n]]

\* app.lock().await, and the envelope built from the P2PApp under the lock
TaskLock(n, t) ==
    /\ tasks[n][t].pc = "lock" /\ mutex[n] = 0
    /\ mutex' = [mutex EXCEPT ![n] = t]
    /\ tasks' = [tasks EXCEPT ![n][t].pc = "ack",
                              ![n][t].env = ReplyEnvelope(n, t)]
    /\ UNCHANGED <<overlayVars, appVars, dpc, cur, dexit, handled,
                   sendVars, envVars,
                   logVars>>
    /\ UNCHANGED auxVars

\* api.app_call_reply(id, "ACK"): the overlay completes the call that waits
\* under this id, and fails when none does.
app_call_reply(id) ==
    IF calls[id].st = "pending"
    THEN [ok |-> TRUE, calls |-> [calls EXCEPT ![id].st = "replied"]]
    ELSE [ok |-> FALSE, calls |-> calls]

\* A reply loop whose guard outlives the iteration that failed.
TaskAck_guard_kept(n, t) ==
    /\ tasks[n][t].pc = "ack"
    /\ LET r == app_call_reply(tasks[n][t].id) IN
       /\ calls' = r.calls
       /\ tasks' = [tasks EXCEPT ![n][t].pc = IF r.ok THEN "send" ELSE "lock"]
       /\ UNCHANGED mutex
    /\ UNCHANGED <<routes, imported, dht, chan, appVars, dpc, cur,
                   dexit, handled, sendVars, envVars,
                   logVars>>
    /\ UNCHANGED auxVars

\* app_call_host_reply, its first half; an error ends the iteration, which
\* drops the guard, and the loop starts over.
TaskAck(n, t) ==
    /\ tasks[n][t].pc = "ack"
    /\ LET r == app_call_reply(tasks[n][t].id) IN
       /\ calls' = r.calls
       /\ IF r.ok
          THEN /\ tasks' = [tasks EXCEPT ![n][t].pc = "send"]
               /\ UNCHANGED mutex
          ELSE /\ tasks' = [tasks EXCEPT ![n][t].pc = "lock"]
               /\ mutex' = [mutex EXCEPT ![n] = 0]
    /\ UNCHANGED <<routes, imported, dht, chan, appVars, dpc, cur,
                   dexit, handled, sendVars, envVars,
                   logVars>>
    /\ UNCHANGED auxVars

\* app_call_host_reply, app_message.send up to the await of app_call
TaskSend(n, t) ==
    /\ tasks[n][t].pc = "send"
    /\ LET m == tasks[n][t].env
           s == send(m)
       IN  /\ imported' = [imported EXCEPT ![n] = @ \cup s.imp]
           /\ IF s.res = "app_call"
              THEN /\ app_call(n, t, s.route, to_vec(m))
                   /\ tasks' = [tasks EXCEPT ![n][t].pc = "wait",
                                             ![n][t].call = Len(calls) + 1]
                   /\ UNCHANGED mutex
              ELSE /\ tasks' = [tasks EXCEPT ![n][t].pc = "lock"]
                   /\ mutex' = [mutex EXCEPT ![n] = 0]
                   /\ UNCHANGED <<calls, chan, cb_logged>>
    /\ UNCHANGED <<routes, dht, appVars, dpc, cur, dexit,
                   handled, sendVars, last_update, nenv,
                   logVars>>
    /\ UNCHANGED auxVars

\* app_call returns: Ok breaks the loop, Err starts it over.
TaskResume(n, t) ==
    /\ tasks[n][t].pc = "wait"
    /\ calls[tasks[n][t].call].st \in {"replied", "failed"}
    /\ tasks' = [tasks EXCEPT ![n][t].pc =
                    IF calls[tasks[n][t].call].st = "replied"
                    THEN "done" ELSE "lock"]
    /\ mutex' = [mutex EXCEPT ![n] = 0]
    /\ UNCHANGED <<overlayVars, appVars, dpc, cur, dexit, handled,
                   sendVars, envVars,
                   logVars>>
    /\ UNCHANGED auxVars

(***************************************************************************)
(* The overlay's own steps.                                                *)
(***************************************************************************)
\* The caller's rpc timeout expires before the call is answered.
Timeout(c) ==
    /\ nenv < MaxEnv /\ calls[c].st = "pending"
    /\ nenv' = nenv + 1
    /\ calls' = [calls EXCEPT ![c].st = "failed"]
    /\ UNCHANGED <<routes, imported, dht, chan, appVars, loopVars,
                   sendVars, last_update, cb_logged,
                   logVars>>
    /\ UNCHANGED auxVars

\* Private route r dies: in a RouteChange update its owner is told of it in
\* dead_routes and each node that imported it in dead_remote_routes.
KillRoute(r) ==
    /\ nenv < MaxEnv /\ routes[r].alive
    /\ nenv' = nenv + 1
    /\ routes' = [routes EXCEPT ![r].alive = FALSE]
    /\ UpdateCallback(
          {n \in Node : routes[r].owner = n \/ r \in imported[n]},
          [n \in Node |->
             IF routes[r].owner = n
             THEN Event("RouteChange", 0, <<>>, <<r>>, <<>>)
             ELSE Event("RouteChange", 0, <<>>, <<>>, <<r>>)])
    /\ UNCHANGED <<imported, dht, calls, appVars, loopVars, sendVars,
                   last_update, logVars>>
    /\ UNCHANGED auxVars

\* The bytes of a one-way app_message a foreign peer sends: an envelope.
OneWayBytes == to_vec(AppMessage(SmallData, RouteBlob(1), RouteBlob(2)))

\* The variants of VeilidUpdate network_loop has no arm for: AppMessage,
\* which carries a message, and the others (Attachment, Network, Config,
\* ...), which carry none.
OtherVariants == {"AppMessage", "Attachment"}

\* An update of a variant network_loop does not match.
OtherUpdate(n, variant) ==
    /\ nenv < MaxEnv /\ phase[n] \in {"ready", "sending", "loop"}
    /\ nenv' = nenv + 1
    /\ UpdateCallback({n},
          [m \in Node |->
             Event(variant, 0,
                   IF variant = "AppMessage" THEN OneWayBytes ELSE <<>>,
                   <<>>, <<>>)])
    /\ UNCHANGED <<routes, imported, dht, calls, appVars, loopVars,
                   sendVars, last_update, logVars>>
    /\ UNCHANGED auxVars

\* A foreign peer calls node n's route with bytes that are no envelope.
BadCall(n) ==
    /\ nenv < MaxEnv /\ Len(calls) < MaxCalls
    /\ phase[n] \in {"ready", "sending", "loop"}
    /\ import_remote_private_route(our_route[n]) # NoKey
    /\ nenv' = nenv + 1
    /\ app_call("X", 0, import_remote_private_route(our_route[n]), BadBytes)
    /\ UNCHANGED <<routes, imported, dht, appVars, loopVars,
                   sendVars, last_update, logVars>>
    /\ UNCHANGED auxVars

\* The route of a foreign peer: a key of no route of the two nodes.
ForeignRoute == MaxRoutes + 1

\* The bytes of a foreign peer's call to node n that decode: an envelope
\* that advertises the peer's own route.
PeerBytes(n) ==
    to_vec(AppMessage(SmallData, our_route[n], RouteBlob(ForeignRoute)))

\* A foreign peer calls node n's route with an envelope: a second client
\* of the host, whose route it resolved from the record as new_client does.
PeerCall(n) ==
    /\ n = Host
    /\ nenv < MaxEnv /\ Len(calls) < MaxCalls
    /\ phase[n] \in {"ready", "sending", "loop"}
    /\ import_remote_private_route(our_route[n]) # NoKey
    /\ nenv' = nenv + 1
    /\ app_call("X", 0, import_remote_private_route(our_route[n]),
                PeerBytes(n))
    /\ UNCHANGED <<routes, imported, dht, appVars, loopVars,
                   sendVars, last_update, logVars>>
    /\ UNCHANGED auxVars

(***************************************************************************)
(* update_service_route_pin(rc, route, dht_key, key_pair), which the       *)
(* repository defines twice.  The application calls it for the host's      *)
(* record with the published form of a route and with the key pair of the  *)
(* record's owner or of its member.                                        *)
(***************************************************************************)
\* The subkey set_dht_value is called with: veilid.rs, utils.rs.
UpdateSubkey(variant) == IF variant = "veilid" THEN 0 ELSE 1

update_service_route_pin(variant, n, route, dht_key, key_pair, up) ==
    /\ nenv < MaxEnv /\ phase[n] \in {"ready", "loop"} /\ HasRecord(dht_key)
    /\ nenv' = nenv + 1
    /\ IF ~up
       THEN \* open_dht_record fails
            /\ last_update' = [variant |-> variant, key |-> dht_key,
                               route |-> route, res |-> "open_dht_record"]
            /\ UNCHANGED dht
       ELSE IF ~MayWrite(key_pair, UpdateSubkey(variant))
       THEN \* set_dht_value fails, the record stays open
            /\ last_update' = [variant |-> variant, key |-> dht_key,
                               route |-> route, res |-> "set_dht_value"]
            /\ dht' = DhtOpen(dht, dht_key, n)
       ELSE /\ last_update' = [variant |-> variant, key |-> dht_key,
                               route |-> route, res |-> "ok"]
            /\ dht' = DhtSet(dht, dht_key, UpdateSubkey(variant), route)
    /\ UNCHANGED <<routes, imported, calls, chan, appVars, loopVars,
                   sendVars, cb_logged, logVars>>
    /\ UNCHANGED auxVars

\* The key of node n's current local route.
OurKey(n) == import_remote_private_route(our_route[n])

\* The routes an application publishes: the first route of the run, which
\* is the host's, and the second.
PinRoutes == {service_key_blob(RouteBlob(r)) : r \in {1, 2}}

Next ==
    \/ \E n \in Node : HostNewRoute(n)
    \/ \E n \in Node, up \in BOOLEAN : HostCreateRecord(n, up)
    \/ \E n \in Node, up \in BOOLEAN : HostSetValue(n, up)
    \/ \E n \in Node, up \in BOOLEAN : HostClose(n, up)
    \/ \E n \in Node, k \in {DhtKey(1), NoRecordKey}, up \in BOOLEAN :
          NewClient(n, k, up)
    \/ \E n \in Node, d \in DataSet : AppCallHost(n, d)
    \/ \E n \in Node : AppCallReturn(n)
    \/ \E n \in Node : StartLoop(n)
    \/ \E n \in Node : DispRecv(n)
    \/ \E n \in Node, panics \in BOOLEAN : DispAppCall(n, panics)
    \/ \E n \in Node, up \in BOOLEAN : DispRouteChange(n, up)
    \/ \E n \in Node : \E t \in TaskIds(n) : TaskLock(n, t)
    \/ \E n \in Node : \E t \in TaskIds(n) : TaskAck(n, t)
    \/ \E n \in Node : \E t \in TaskIds(n) : TaskSend(n, t)
    \/ \E n \in Node : \E t \in TaskIds(n) : TaskResume(n, t)
    \/ \E c \in 1..Len(calls) : Timeout(c)
    \/ \E r \in 1..Len(routes) : KillRoute(r)
    \/ \E n \in Node, variant \in OtherVariants : OtherUpdate(n, variant)
    \/ \E n \in Node : BadCall(n)
    \/ \E variant \in {"veilid", "utils"}, route \in PinRoutes,
          key_pair \in {"owner", "member"}, up \in BOOLEAN :
          update_service_route_pin(variant, Host, route, own_dht_key[Host],
                                   key_pair, up)

Spec == Init /\ [][Next]_vars

(***************************************************************************)
(* The runs with third parties.  A second client of the host calls it      *)
(* (PeerCall); and the host is succeeded: once the host's route is dead,   *)
(* its application writes the pin again, once, with the route of the       *)
(* host's successor (update_service_route_pin of veilid.rs with the        *)
(* owner's key pair).  Of the events of Spec these runs have the dead      *)
(* routes and the rpc timeouts.                                            *)
(***************************************************************************)
SuccessorPin == service_key_blob(RouteBlob(ForeignRoute))

Republish ==
    /\ phase[Host] \in {"ready", "loop", "exited"}
    /\ OurKey(Host) # NoKey /\ ~routes[OurKey(Host)].alive
    /\ dht[own_dht_key[Host] - DhtBase].seq[1] = 1
    /\ dht' = DhtSet(dht, own_dht_key[Host], UpdateSubkey("veilid"),
                     SuccessorPin)
    /\ last_update' = [variant |-> "veilid", key |-> own_dht_key[Host],
                       route |-> SuccessorPin, res |-> "ok"]
    /\ UNCHANGED <<routes, imported, calls, chan, appVars, loopVars,
                   sendVars, nenv, cb_logged, logVars>>
    /\ UNCHANGED auxVars

NextPeers ==
    \/ \E n \in Node : HostNewRoute(n)
    \/ \E n \in Node, up \in BOOLEAN : HostCreateRecord(n, up)
    \/ \E n \in Node, up \in BOOLEAN : HostSetValue(n, up)
    \/ \E n \in Node, up \in BOOLEAN : HostClose(n, up)
    \/ \E n \in Node, k \in {DhtKey(1), NoRecordKey}, up \in BOOLEAN :
          NewClient(n, k, up)
    \/ \E n \in Node, d \in DataSet : AppCallHost(n, d)
    \/ \E n \in Node : AppCallReturn(n)
    \/ \E n \in Node : StartLoop(n)
    \/ \E n \in Node : DispRecv(n)
    \/ \E n \in Node, panics \in BOOLEAN : DispAppCall(n, panics)
    \/ \E n \in Node, up \in BOOLEAN : DispRouteChange(n, up)
    \/ \E n \in Node : \E t \in TaskIds(n) : TaskLock(n, t)
    \/ \E n \in Node : \E t \in TaskIds(n) : TaskAck(n, t)
    \/ \E n \in Node : \E t \in TaskIds(n) : TaskSend(n, t)
    \/ \E n \in Node : \E t \in TaskIds(n) : TaskResume(n, t)
    \/ \E c \in 1..Len(calls) : Timeout(c)
    \/ \E r \in 1..Len(routes) : KillRoute(r)
    \/ \E n \in Node : PeerCall(n)
    \/ Republish

PeersSpec == Init /\ [][NextPeers]_vars

(***************************************************************************)
(* The tasks tokio runs get to run: a reply task that can call             *)
(* app_call_reply does so, and a dispatcher that can go on does so.        *)
(***************************************************************************)
Fairness ==
    /\ \A n \in Node : WF_vars(\E t \in TaskIds(n) : TaskLock(n, t))
    /\ \A n \in Node : WF_vars(\E t \in TaskIds(n) : TaskAck(n, t))
    /\ \A n \in Node : WF_vars(\E t \in TaskIds(n) : TaskSend(n, t))
    /\ \A n \in Node : WF_vars(\E t \in TaskIds(n) : TaskResume(n, t))
    /\ \A n \in Node : WF_vars(DispRecv(n)
                                 \/ \E p \in BOOLEAN : DispAppCall(n, p))

FairSpec == Spec /\ Fairness

(***************************************************************************)
(* The runs in which the overlay ends every app_call.  A call the callee   *)
(* does not answer ends with the caller's rpc timeout (RpcTimeout, which   *)
(* is Timeout without the budget of outside events), and tokio's Mutex     *)
(* hands the lock to its waiters in the order they asked for it: a task    *)
(* that waits for the lock gets it once it was free often enough.          *)
(***************************************************************************)
RpcTimeout(c) ==
    /\ calls[c].st = "pending"
    /\ calls' = [calls EXCEPT ![c].st = "failed"]
    /\ UNCHANGED <<routes, imported, dht, chan, appVars, loopVars,
                   sendVars, envVars, logVars>>
    /\ UNCHANGED auxVars

NextLive ==
    \/ \E n \in Node : HostNewRoute(n)
    \/ \E n \in Node, up \in BOOLEAN : HostCreateRecord(n, up)
    \/ \E n \in Node, up \in BOOLEAN : HostSetValue(n, up)
    \/ \E n \in Node, up \in BOOLEAN : HostClose(n, up)
    \/ \E n \in Node, k \in {DhtKey(1), NoRecordKey}, up \in BOOLEAN :
          NewClient(n, k, up)
    \/ \E n \in Node, d \in DataSet : AppCallHost(n, d)
    \/ \E n \in Node : AppCallReturn(n)
    \/ \E n \in Node : StartLoop(n)
    \/ \E n \in Node : DispRecv(n)
    \/ \E n \in Node, panics \in BOOLEAN : DispAppCall(n, panics)
    \/ \E n \in Node, up \in BOOLEAN : DispRouteChange(n, up)
    \/ \E n \in Node : \E t \in TaskIds(n) : TaskLock(n, t)
    \/ \E n \in Node : \E t \in TaskIds(n) : TaskAck(n, t)
    \/ \E n \in Node : \E t \in TaskIds(n) : TaskSend(n, t)
    \/ \E n \in Node : \E t \in TaskIds(n) : TaskResume(n, t)
    \/ \E c \in 1..Len(calls) : RpcTimeout(c)
    \/ \E r \in 1..Len(routes) : KillRoute(r)

\* The holder of a node's mutex is one task at a time, so the steps of
\* the holder are fair when those of the node's tasks are.
LiveFairness ==
    /\ \A n \in Node : \A t \in 1..MaxCalls :
          SF_vars(t \in TaskIds(n) /\ TaskLock(n, t))
    /\ \A n \in Node :
          WF_vars(\E t \in TaskIds(n) :
                     TaskAck(n, t) \/ TaskSend(n, t) \/ TaskResume(n, t))
    /\ \A n \in Node :
          SF_vars(\/ \E p \in BOOLEAN : DispAppCall(n, p)
                  \/ \E up \in BOOLEAN : DispRouteChange(n, up))
    /\ WF_vars(\E c \in 1..Len(calls) : RpcTimeout(c))

LiveSpec == Init /\ [][NextLive]_vars /\ LiveFairness

(***************************************************************************)
(* create_api_and_connect(update_callback, config_callback) and the wait   *)
(* loops it runs, for one node.  The overlay is the node's own veilid      *)
(* core: once attach was called its VeilidState changes as the network     *)
(* does.  A wait loop that finds its condition false sleeps and asks       *)
(* again, which changes nothing.                                           *)
(***************************************************************************)
AttachmentState ==
    {"Detached", "Attaching", "AttachedWeak", "AttachedGood",
     "AttachedStrong", "FullyAttached", "OverAttached", "Detaching"}

VeilidState ==
    [started : BOOLEAN, peers : 0..MaxPeers, attachment : AttachmentState,
     public_internet_ready : BOOLEAN]

\* The overlay's state changes.
StateChange(vs) ==
    /\ spc \notin {"api_startup", "attach"}
    /\ net' = vs
    /\ UNCHANGED <<overlayVars, appVars, loopVars, sendVars, envVars,
                   logVars, spc, slog, serr, keyVars>>

\* create_api_and_connect goes on to `next`, or returns the error of `step`.
StartStep(step, ok, saw, next) ==
    /\ spc = step
    /\ IF ok
       THEN /\ spc' = next
            /\ slog' = Append(slog, [step |-> step, saw |-> saw])
            /\ UNCHANGED serr
       ELSE /\ spc' = "err"
            /\ serr' = step
            /\ UNCHANGED slog
    /\ UNCHANGED <<overlayVars, appVars, loopVars, sendVars, envVars,
                   logVars, net, keyVars>>

\* api_startup(update_callback, config_callback).await?
ApiStartup(ok) == StartStep("api_startup", ok, <<>>, "attach")

\* api.attach().await?
Attach(ok) == StartStep("attach", ok, <<>>, "wait_for_network_start")

\* One round of a wait loop: get_state fails and the loop returns its
\* error; or the state meets the loop's condition and the loop returns
\* Ok, having examined `saw`; or it does not and the loop sleeps.
WaitRound(step, get_state_ok, done, saw, next) ==
    /\ spc = step
    /\ IF ~get_state_ok
       THEN /\ spc' = "err"
            /\ serr' = "get_state"
            /\ UNCHANGED slog
       ELSE IF done
       THEN /\ spc' = next
            /\ slog' = Append(slog, [step |-> step, saw |-> saw])
            /\ UNCHANGED serr
       ELSE UNCHANGED <<spc, slog, serr>>
    /\ UNCHANGED <<overlayVars, appVars, loopVars, sendVars, envVars,
                   logVars, net, keyVars>>

\* A loop that is content with a started network.
wait_for_network_start_done_no_peers(vs) == vs.started

\* vs.network.started && !vs.network.peers.is_empty()
wait_for_network_start_done(vs) == vs.started /\ vs.peers # 0

\* A loop that is content with any state but Detached.
wait_for_attached_done_attaching(vs) == vs.attachment # "Detached"

\* The arm of the attached states in wait_for_attached.
wait_for_attached_done(vs) ==
    vs.attachment \in {"AttachedWeak", "AttachedGood", "AttachedStrong",
                       "FullyAttached", "OverAttached"}

wait_for_public_internet_ready_done(vs) == vs.public_internet_ready

wait_for_network_start(get_state_ok) ==
    WaitRound("wait_for_network_start", get_state_ok,
              wait_for_network_start_done(net), <<net.started, net.peers>>,
              "wait_for_attached")

wait_for_attached(get_state_ok) ==
    WaitRound("wait_for_attached", get_state_ok,
              wait_for_attached_done(net), <<net.attachment>>,
              "wait_for_public_internet_ready")

\* After this loop create_api_and_connect returns Ok(api).
wait_for_public_internet_ready(get_state_ok) ==
    WaitRound("wait_for_public_internet_ready", get_state_ok,
              wait_for_public_internet_ready_done(net),
              <<net.public_internet_ready>>, "ok")

NextStart ==
    \/ \E ok \in BOOLEAN : ApiStartup(ok)
    \/ \E ok \in BOOLEAN : Attach(ok)
    \/ \E ok \in BOOLEAN : wait_for_network_start(ok)
    \/ \E ok \in BOOLEAN : wait_for_attached(ok)
    \/ \E ok \in BOOLEAN : wait_for_public_internet_ready(ok)
    \/ \E vs \in VeilidState : StateChange(vs)

\* create_api_and_connect is a task that runs: a step it can take for
\* good, it takes.
StartFairness ==
    /\ WF_vars(\E ok \in BOOLEAN : ApiStartup(ok))
    /\ WF_vars(\E ok \in BOOLEAN : Attach(ok))
    /\ WF_vars(\E ok \in BOOLEAN : wait_for_network_start(ok))
    /\ WF_vars(\E ok \in BOOLEAN : wait_for_attached(ok))
    /\ WF_vars(\E ok \in BOOLEAN : wait_for_public_internet_ready(ok))

StartSpec == Init /\ [][NextStart]_vars /\ StartFairness

(***************************************************************************)
(* update_service_key(rc, encoded_keys, service_keys) of dht.rs, called    *)
(* with any ServiceKeys and a DHT any of whose calls may fail.             *)
(***************************************************************************)
DhtOp(op, key, arg) == [op |-> op, key |-> key, arg |-> arg]

\* An update that asks for the DHT key alone and opens the record
\* without a writer.
update_service_key_lax(encoded_keys, service_keys, open_ok, set_ok, close_ok) ==
    IF service_keys.dht_key = <<>>
    THEN [res |-> "DHT Key not found", ops |-> <<>>]
    ELSE [res |-> "set_dht_value",
          ops |-> <<DhtOp("open_dht_record", service_keys.dht_key[1], <<>>),
                    DhtOp("set_dht_value", service_keys.dht_key[1],
                          <<0, encoded_keys>>)>>]

\* The result, and the calls made of the DHT.
update_service_key(encoded_keys, service_keys, open_ok, set_ok, close_ok) ==
    IF /\ service_keys.dht_key # <<>>
       /\ service_keys.dht_owner_key # <<>>
       /\ service_keys.dht_owner_secret_key # <<>>
    THEN LET dht_key == service_keys.dht_key[1]
             key_pair == <<service_keys.dht_owner_key[1],
                           service_keys.dht_owner_secret_key[1]>>
             open == DhtOp("open_dht_record", dht_key, key_pair)
             set == DhtOp("set_dht_value", dht_key, <<0, encoded_keys>>)
             close == DhtOp("close_dht_record", dht_key, <<>>)
         IN  IF ~open_ok
             THEN [res |-> "open_dht_record", ops |-> <<open>>]
             ELSE IF ~set_ok
             THEN [res |-> "set_dht_value", ops |-> <<open, set>>]
             ELSE IF ~close_ok
             THEN [res |-> "panic", ops |-> <<open, set, close>>]
             ELSE [res |-> "ok", ops |-> <<open, set, close>>]
    ELSE [res |-> "DHT Key not found", ops |-> <<>>]

\* The arguments update_service_key is called with, and the answers of
\* the DHT to the calls it makes.
KeyInputs ==
    [dht_key : Option({DhtKey(1), DhtKey(2)}),
     dht_owner_key : Option({"owner"}),
     dht_owner_secret_key : Option({"owner secret"}),
     encoded_keys : PinRoutes,
     open_ok : BOOLEAN, set_ok : BOOLEAN, close_ok : BOOLEAN]

UpdateServiceKey ==
    /\ ukout = NotReturned
    /\ ukout' = update_service_key(ukin.encoded_keys, ukin, ukin.open_ok,
                                   ukin.set_ok, ukin.close_ok)
    /\ UNCHANGED <<overlayVars, appVars, loopVars, sendVars, envVars,
                   logVars, startVars, ukin>>

KeysInit ==
    /\ AppInit /\ StartInit
    /\ ukin \in KeyInputs
    /\ ukout = NotReturned

KeysSpec == KeysInit /\ [][UpdateServiceKey]_vars

(***************************************************************************)
(* Properties.                                                             *)
(***************************************************************************)
\* The handler invocations of node n for the call with overlay id c.
Invocations(n, c) == {i \in 1..Len(handled[n]) : handled[n][i].id = c}

\* The node a call was addressed to.
Callee(c) == routes[calls[c].to].owner

\* C1: a send that returned Ok had the peer's handler invoked exactly once
\* for it, with the payload that was sent; and no call, whatever its
\* outcome, has the handler invoked twice or with other data than its
\* sender gave it.
C1_RoundTrip ==
    /\ \A n \in Node :
          csend[n].res = "ok" =>
             /\ Cardinality(Invocations(Callee(csend[n].call),
                                        csend[n].call)) = 1
             /\ \A i \in Invocations(Callee(csend[n].call), csend[n].call) :
                   handled[Callee(csend[n].call)][i].data = csend[n].msg.data
    /\ \A n \in Node : \A t \in TaskIds(n) :
          tasks[n][t].pc = "done" =>
             /\ Cardinality(Invocations(Callee(tasks[n][t].call),
                                        tasks[n][t].call)) = 1
             /\ \A i \in Invocations(Callee(tasks[n][t].call),
                                     tasks[n][t].call) :
                   handled[Callee(tasks[n][t].call)][i].data
                      = tasks[n][t].env.data
    /\ \A n \in Node : \A c \in 1..Len(calls) :
          /\ Cardinality(Invocations(n, c)) <= 1
          /\ Invocations(n, c) # {} => n = Callee(c)

\* The client's send of the 32 KiB payload returned Ok and the host's
\* handler ran for it.
C1_Witness ==
    /\ csend[Client].res = "ok"
    /\ csend[Client].msg.data = EdgeData
    /\ \E i \in 1..Len(handled[Host]) :
          /\ handled[Host][i].id = csend[Client].call
          /\ handled[Host][i].data = EdgeData

\* C2: when two AppCalls with identical bytes reach a dispatcher, the
\* handler is invoked once for that content.
C2_HandlerOncePerContent ==
    \A n \in Node : \A i, j \in 1..Len(handled[n]) :
       i # j => calls[handled[n][i].id].message
                   # calls[handled[n][j].id].message

\* C3: a send whose envelope is longer than 32 KiB returns "Message size
\* exceeds 32kb" and does nothing to the overlay: no route is imported, no
\* app_call is issued, no update reaches any node.  The same holds for the
\* send of a reply task.
C3_OversizeNoOverlay ==
    [][/\ \A n \in Node :
             (csend'[n] # csend[n] /\ csend'[n].res # "panic"
              /\ JsonLen(csend'[n].msg) > 32 * 1024)
             => /\ csend'[n].res = "Message size exceeds 32kb"
                /\ calls' = calls /\ imported' = imported /\ chan' = chan
       /\ \A n \in Node : \A t \in TaskIds(n) :
             (tasks[n][t].pc = "send" /\ tasks'[n][t].pc # "send"
              /\ JsonLen(tasks[n][t].env) > 32 * 1024)
             => /\ tasks'[n][t].pc = "lock"
                /\ calls' = calls /\ imported' = imported /\ chan' = chan
      ]_vars

\* The client's send of the 35 KiB payload failed on the size check.
C3_Witness ==
    /\ csend[Client].res = "Message size exceeds 32kb"
    /\ csend[Client].msg.data = BigData
    /\ calls = <<>>

\* The updates node n's dispatcher has taken from its channel include the
\* AppCall c.
Received(n, c) ==
    /\ calls[c].to \in 1..Len(routes) /\ Callee(c) = n
    /\ \A i \in 1..Len(chan[n]) : chan[n][i].id # c
    /\ phase[n] \in {"loop", "exited"}

\* C4: an AppCall the dispatcher received whose bytes do not decode is
\* answered: it was replied to, or the dispatcher or a reply task still
\* holds it.
C4_AckOnDecodeFailure ==
    \A n \in Node : \A c \in 1..Len(calls) :
       (Received(n, c) /\ from_slice(calls[c].message) = NoMessage)
       => \/ calls[c].st = "replied"
          \/ (phase[n] = "loop" /\ cur[n].id = c)
          \/ \E t \in TaskIds(n) : tasks[n][t].id = c /\ tasks[n][t].pc # "done"

\* C5: network_loop never returns because an AppCall did not decode.
C5_DispatcherSurvivesBadMessage ==
    \A n \in Node : ~(phase[n] = "exited" /\ dexit[n] = "from_slice")

\* C6: every send terminates, the reply send of the dispatcher included:
\* from some point on no reply task is about to make another overlay call
\* for a reply it already attempted.
C6_SendTerminates ==
    \A n \in Node : <>[](\A t \in TaskIds(n) : tasks[n][t].pc # "ack")

\* C7: a dispatcher that is told its cached peer route is dead resolves the
\* peer's new route; it does not stop because the key it resolves names no
\* DHT record.
C7_RotationReachability ==
    \A n \in Node :
       ~(phase[n] = "exited" /\ dexit[n] = "open_dht_record: no record")

\* A RouteChange is still to be handled by node n's dispatcher.
RouteChangePending(n) ==
    \/ dpc[n] = "RouteChange"
    \/ \E i \in 1..Len(chan[n]) : chan[n][i].type = "RouteChange"

\* C8: once the dispatcher has handled the RouteChange that reports the
\* node's current local route dead, the current local route is a new, live
\* route.
C8_RotateOnDeadRoute ==
    \A n \in Node :
       (phase[n] = "loop" /\ OurKey(n) # NoKey /\ ~RouteChangePending(n))
       => routes[OurKey(n)].alive

\* C9: an update of the pin that returned Ok has overwritten subkey 0 of the
\* record with the route it was given.
C9_UpdateWritesSubkey0 ==
    last_update.res = "ok"
    => get_dht_value(last_update.key, 0) = last_update.route

\* new_host has returned Ok.
HostInitDone == service_key[Host] # NoKey

\* Subkey 0 of the host's record holds the first value written to it.
FirstValue == dht[own_dht_key[Host] - DhtBase].seq[1] = 1

\* What a resolver makes of the bytes v of a subkey: the steps of
\* get_service_route between get_dht_value and import_remote_private_route.
Resolved(v) ==
    IF v = None THEN None
    ELSE IF from_utf8(v) = None THEN None
    ELSE decode(from_utf8(v))

C11_CacheInvalidation ==
    [][\A n \in Node :
          (dpc[n] = "RouteChange" /\ dpc'[n] # "RouteChange"
           /\ phase'[n] = "loop")
          => \A i \in 1..Len(cur[n].dead_remote_routes) :
                import_remote_private_route(their_route'[n])
                   # cur[n].dead_remote_routes[i]
      ]_vars

\* C12: a send of a node that caches no peer route resolves the peer's
\* route, once, and goes on with the route it resolved.
C12_ColdSendResolves ==
    [][\A n \in Node :
          (csend'[n] # csend[n] /\ their_route[n] = None)
          => /\ their_route'[n] # None
             /\ csend'[n].res # "panic"
      ]_vars

\* C13: a resolve that returns the peer route the node holds already
\* changes nothing else: no private route is created and the node's own
\* route stays.
C13_LookupIdempotent ==
    [][\A n \in Node :
          (dpc[n] = "RouteChange" /\ dpc'[n] # "RouteChange"
           /\ phase'[n] = "loop" /\ their_route'[n] = their_route[n])
          => /\ our_route'[n] = our_route[n]
             /\ Len(routes') = Len(routes)
      ]_vars

\* The key names a record under whose subkey 0 a value was published.
Published(key) == HasRecord(key) /\ get_dht_value(key, 0) # None

\* C14: new_client with a key nothing was published under fails in its one
\* resolve; the client that failed holds no peer route, made no private
\* route and imported none, and a client that was constructed was given a
\* published key.
C14_UnknownPeer ==
    /\ phase[Client] \notin {"start", "failed"}
       => Published(service_key[Client])
    /\ (phase[Client] = "failed" /\ csend[Client].res = "none")
       => /\ dexit[Client] # "none"
          /\ their_route[Client] = None /\ our_route[Client] = None
          /\ service_key[Client] = NoKey
          /\ \A r \in 1..Len(routes) : routes[r].owner # Client
    /\ (phase[Client] = "failed"
        /\ dexit[Client] \in {"open_dht_record: no record",
                              "DHT value not found"})
       => imported[Client] = {}

\* new_client failed on a key without a record while the host's record is
\* published.
C14_Witness ==
    /\ phase[Client] = "failed"
    /\ dexit[Client] = "open_dht_record: no record"
    /\ Published(DhtKey(1))
    /\ their_route[Client] = None

\* The calls app_call_host issued.
HostCalls == {c \in 1..Len(calls) : calls[c].from \in Node /\ calls[c].task = 0}

\* The only app_call_host of the run is the client's, with count 0, and
\* what the host published is still what its record holds, so that the
\* client's peer is the host.
PingPongRun ==
    /\ \A k \in 1..Len(dht) : dht[k].seq[1] <= 1
    /\ Cardinality(HostCalls) <= 1
    /\ \A c \in HostCalls :
          /\ calls[c].from = Client
          /\ from_slice(calls[c].message).data = SmallData
    /\ \A n \in Node : csend[n].res # "none" => csend[n].msg.data = SmallData

C16_OneWayHandled ==
    [][\A n \in Node :
          (phase[n] = "loop" /\ dpc[n] = "recv" /\ chan[n] # <<>>
           /\ chan'[n] = Tail(chan[n])
           /\ Head(chan[n]).type = "AppMessage"
           /\ from_slice(Head(chan[n]).message) # NoMessage)
          => /\ Len(handled'[n]) = Len(handled[n]) + 1
             /\ handled'[n][Len(handled'[n])].data
                   = from_slice(Head(chan[n]).message).data
      ]_vars

\* C17: the update callback never calls the logger.
C17_CallbackOnlyEnqueues ==
    \A n \in Node : ~cb_logged[n]

\* C18: a reply send that fails the size check is over: its task does not
\* go back to the head of the retry loop.
C18_OversizeFinal ==
    [][\A n \in Node : \A t \in TaskIds(n) :
          (tasks[n][t].pc = "send" /\ JsonLen(tasks[n][t].env) > 32 * 1024)
          => tasks'[n][t].pc # "lock"
      ]_vars

\* C19: an envelope of exactly 32768 bytes passes the size check and is
\* handed to the overlay, one of 32769 bytes or more is rejected: a send
\* was rejected for its size if and only if its envelope is longer than
\* 32768 bytes, and a reply send that reached app_call had at most 32768.
C19_LimitInclusive ==
    /\ \A n \in Node :
          csend[n].res \notin {"none", "panic"}
          => (csend[n].res = "Message size exceeds 32kb"
              <=> JsonLen(csend[n].msg) >= 32769)
    /\ \A n \in Node : \A t \in TaskIds(n) :
          tasks[n][t].pc \in {"wait", "done"}
          => JsonLen(tasks[n][t].env) <= 32768

\* An envelope of exactly 32768 bytes was sent and answered, and the reply
\* to it, of 32769 bytes, is not among the calls.
C19_Witness ==
    /\ JsonLen(csend[Client].msg) = 32768
    /\ csend[Client].res = "ok"
    /\ \E t \in TaskIds(Host) :
          /\ JsonLen(tasks[Host][t].env) = 32769
          /\ tasks[Host][t].pc = "lock"
          /\ tasks[Host][t].call = 0

\* C20: the ACK of a call is issued before the handler is invoked for it:
\* no call whose handler has run still waits for its answer.
C20_AckBeforeHandler ==
    \A n \in Node : \A i \in 1..Len(handled[n]) :
       calls[handled[n][i].id].st # "pending"

\* C21: app_call_reply is invoked at most once for an AppCall: a reply task
\* never calls it for a call that it has answered already.
C21_AckAtMostOnce ==
    [][\A n \in Node : \A t \in TaskIds(n) :
          (tasks[n][t].pc = "ack" /\ tasks'[n][t].pc # "ack")
          => calls[tasks[n][t].id].st # "replied"
      ]_vars

\* C23: while the app_call of a reply task is in flight, the mutex of its
\* P2PApp is free.
C23_MutexFreeOverCall ==
    \A n \in Node : \A t \in TaskIds(n) :
       (tasks[n][t].pc = "wait" /\ calls[tasks[n][t].call].st = "pending")
       => mutex[n] = 0

\* C26: network_loop never returns because the handling of a RouteChange
\* failed on the import of the cached route, on the DHT or on the creation
\* of the new route.
C26_RouteChangeFailureKept ==
    \A n \in Node :
       phase[n] = "exited"
       => dexit[n] \notin {"import_remote_private_route",
                           "open_dht_record: unreachable",
                           "DHT value not found",
                           "new_custom_private_route"}

\* C27: after an app_call_host whose app_call failed, the node caches no
\* peer route.
C27_FailedSendDropsRoute ==
    \A n \in Node :
       (phase[n] = "ready" /\ csend[n].res = "app_call failed")
       => their_route[n] = None

\* C22: the response of a reply task goes to the route its call advertised
\* in our_route: the envelope the task has built is addressed to it.
C22_ResponseToCaller ==
    \A n \in Node : \A t \in TaskIds(n) :
       tasks[n][t].pc \in {"ack", "send", "wait", "done"}
       => tasks[n][t].env.their_route = tasks[n][t].msg.our_route

\* C24: the dispatcher holds no mutex when it invokes the handler, and
\* none when the AppCall arm is left.
C24_HandlerOutsideMutex ==
    /\ \A n \in Node : \A i \in 1..Len(handled[n]) :
          handled[n][i].mutex # Disp
    /\ \A n \in Node : mutex[n] # Disp

\* The host's handler was invoked for the client's call, after the block
\* had stored the client's route, with the mutex free.
C24_Witness ==
    /\ Len(handled[Host]) >= 1
    /\ handled[Host][1].id = csend[Client].call
    /\ handled[Host][1].mutex = 0
    /\ their_route[Host] = our_route[Client]

\* C25: network_loop never ends because the handler panicked on a message.
C25_HandlerFailureIsolated ==
    \A n \in Node : ~(phase[n] = "exited" /\ dexit[n] = "on_remote_call")

\* The RouteChange of log entry e names the peer route that was cached.
Matched(e) ==
    /\ e.their0 # None
    /\ \E i \in 1..Len(e.dead_remote_routes) :
          e.dead_remote_routes[i] = import_remote_private_route(e.their0)

C29_OtherVariantsIgnored ==
    [][\A n \in Node :
          (phase[n] = "loop" /\ dpc[n] = "recv" /\ chan[n] # <<>>
           /\ chan'[n] = Tail(chan[n])
           /\ Head(chan[n]).type \notin {"AppCall", "AppMessage",
                                         "RouteChange"})
          => /\ UNCHANGED <<routes, imported, dht, calls, appVars,
                            loopVars, sendVars, rc_log>>
             /\ \A m \in Node \ {n} : chan'[m] = chan[m]
             /\ phase'[n] = "loop" /\ dpc'[n] = "recv"
      ]_vars

\* A dispatcher has ignored an Attachment update and runs on.
C29_Witness ==
    \E n \in Node :
       /\ "Attachment" \in ignored[n]
       /\ phase[n] = "loop" /\ dpc[n] = "recv"

\* The routes of node n that a RouteChange has replaced.
ReplacedOur(n) ==
    {rc_log[n][i].our0 : i \in {j \in 1..Len(rc_log[n]) :
                                  rc_log[n][j].our1 # rc_log[n][j].our0}}

ReplacedTheir(n) ==
    {rc_log[n][i].their0 : i \in {j \in 1..Len(rc_log[n]) :
                                    rc_log[n][j].their1 # rc_log[n][j].their0}}

\* A send attempt of reply task t is under way: the task holds the mutex,
\* so that the attempt began after every RouteChange handled so far.
Attempting(n, t) == tasks[n][t].pc \in {"ack", "send", "wait"}

C32_ServiceKeyIsRecordKey ==
    HostInitDone => service_key[Host] = own_dht_key[Host]

\* C33: no operation leaves a record open: a record is open at a node
\* only while that node's publish is between create_dht_record and
\* close_dht_record.
C33_NoRecordLeftOpen ==
    \A k \in 1..Len(dht) : \A n \in dht[k].open :
       phase[n] \in {"created", "set"}

\* The subkey get_dht_value is called with: P2PApp::get_service_route of
\* veilid.rs, get_service_route_from_dht of utils.rs.
ResolveSubkey(variant) == IF variant = "veilid" THEN 0 ELSE 1

\* The route blob a resolver of the variant makes of the record under key.
ResolveFromDht(variant, key) ==
    Resolved(get_dht_value(key, ResolveSubkey(variant)))

\* Route blob b is what the host published last: by its last update that
\* returned Ok, or else by new_host.
LastPublished(b) ==
    IF last_update.res = "ok"
    THEN last_update.route = service_key_blob(b)
    ELSE our_route[Host] = b

\* C34: resolving the host's record, with the resolver of either file,
\* yields the route blob the host published last, by publish alone or by
\* publish followed by update.
C34_ResolveYieldsPublished ==
    HostInitDone
    => \A variant \in {"veilid", "utils"} :
          \A b \in {RouteBlob(r) : r \in 1..MaxRoutes} :
             LastPublished(b)
             => ResolveFromDht(variant, own_dht_key[Host]) = b

\* C35: when the dispatcher has processed an AppCall, the peer route it
\* caches is the route the envelope advertised, whatever was cached before.
C35_LearnedRouteOverwrites ==
    \A n \in Node : \A i \in 1..Len(handled[n]) :
       handled[n][i].their = handled[n][i].advertised

\* The host cached the route of one peer, handled no RouteChange, and
\* the AppCall of another peer overwrote the cached route with its own.
C35_Witness ==
    /\ rc_log[Host] = <<>>
    /\ Len(handled[Host]) = 2
    /\ handled[Host][1].their # None
    /\ handled[Host][2].advertised # handled[Host][1].their
    /\ handled[Host][2].their = RouteBlob(ForeignRoute)
    /\ their_route[Host] = RouteBlob(ForeignRoute)

\* C38: their_route is set whenever it is read: app_call_host never
\* unwraps an absent peer route, and no reply task builds its envelope
\* from one.
C38_PeerRoutePresentWhenRead ==
    /\ \A n \in Node : csend[n].res # "panic"
    /\ \A n \in Node : \A t \in TaskIds(n) :
          tasks[n][t].env # NoMessage => tasks[n][t].env.their_route # None

\* Node n's dispatcher waits for the mutex in app.lock().await.
DispWaits(n) == phase[n] = "loop" /\ dpc[n] \in {"AppCall", "RouteChange"}

StepsDone == [i \in 1..Len(slog) |-> slog[i].step]

\* C36: create_api_and_connect returns Ok only after attach was called
\* and then, in this order, the network was seen started with at least one
\* peer, the attachment state was seen in one of the five attached states,
\* and public_internet_ready was seen true; the attachment state it saw
\* last is neither Detached nor Attaching; and an error of get_state ends
\* startup with that error.
C36_StartupOrder ==
    /\ spc = "ok"
       => /\ StepsDone = <<"api_startup", "attach", "wait_for_network_start",
                           "wait_for_attached",
                           "wait_for_public_internet_ready">>
          /\ slog[3].saw[1] = TRUE /\ slog[3].saw[2] >= 1
          /\ slog[4].saw[1] \in {"AttachedWeak", "AttachedGood",
                                  "AttachedStrong", "FullyAttached",
                                  "OverAttached"}
          /\ slog[4].saw[1] \notin {"Detached", "Attaching"}
          /\ slog[5].saw[1] = TRUE
    /\ serr # "none" <=> spc = "err"
    /\ serr = "get_state"
       => /\ Len(slog) \in 2..4
          /\ StepsDone = SubSeq(<<"api_startup", "attach",
                                  "wait_for_network_start",
                                  "wait_for_attached">>, 1, Len(slog))

\* create_api_and_connect has returned Ok, and the node has detached since.
C36_Witness ==
    /\ spc = "ok" /\ Len(slog) = 5
    /\ slog[4].saw[1] = "AttachedWeak"
    /\ net.attachment = "Detached"

\* The conditions of the three wait loops, of the overlay's state.
NetworkStarted == net.started /\ net.peers >= 1
NodeAttached ==
    net.attachment \in {"AttachedWeak", "AttachedGood", "AttachedStrong",
                        "FullyAttached", "OverAttached"}
PublicInternetReady == net.public_internet_ready

\* create_api_and_connect has returned.
Returned == spc \in {"ok", "err"}

HasKeys ==
    /\ ukin.dht_key # <<>>
    /\ ukin.dht_owner_key # <<>>
    /\ ukin.dht_owner_secret_key # <<>>

\* The calls of the DHT update_service_key makes when none fails.
OpenWriteClose ==
    <<DhtOp("open_dht_record", ukin.dht_key[1],
            <<ukin.dht_owner_key[1], ukin.dht_owner_secret_key[1]>>),
      DhtOp("set_dht_value", ukin.dht_key[1], <<0, ukin.encoded_keys>>),
      DhtOp("close_dht_record", ukin.dht_key[1], <<>>)>>

\* C39: without the DHT key, the owner's public key or the owner's secret
\* key update_service_key returns "DHT Key not found" and calls nothing of
\* the DHT; with all three it opens the record with the owner's key pair,
\* writes subkey 0 and closes the record, as far as the DHT lets it.
C39_UpdateServiceKey ==
    ukout # NotReturned
    => /\ ~HasKeys => ukout = [res |-> "DHT Key not found", ops |-> <<>>]
       /\ HasKeys
          => /\ ukout.res # "DHT Key not found"
             /\ ukout.ops # <<>>
             /\ ukout.ops = SubSeq(OpenWriteClose, 1, Len(ukout.ops))
             /\ (ukin.open_ok /\ ukin.set_ok) => ukout.ops = OpenWriteClose
             /\ ukout.res = "ok"
                <=> (ukin.open_ok /\ ukin.set_ok /\ ukin.close_ok)

\* update_service_key has written the record of ServiceKeys that hold
\* all three keys.
C39_Witness ==
    /\ HasKeys
    /\ ukout = [res |-> "ok", ops |-> OpenWriteClose]

====
